---------------------------- MODULE Spec2Model ----------------------------
(***************************************************************************)
(* VW RTO Verification (src/app.py): reconciliation of spreadsheet rows    *)
(* against facts extracted from document text.                             *)
(*                                                                         *)
(* Python values are records [k, s]: k = "str" is a str whose characters   *)
(* are the tuple s, k = "none" is None, k = "nan" is the float NaN that    *)
(* pandas stores in a cell with no value (a blank spreadsheet cell, or the *)
(* right-hand columns of a row the left merge found no partner for).       *)
(***************************************************************************)
EXTENDS Integers, Sequences, FiniteSets, TLC

VARIABLES
    pc,              \* position of the "Run Verification" handler
    pdf_i,           \* index i of the PDF loop
    uploaded_excel,  \* the spreadsheet widget's content
    uploaded_pdfs,   \* the document widget's content: a sequence of texts
    extracted_docs,  \* list built by the PDF loop
    df_docs,         \* DataFrame of extracted_docs
    df_user,         \* DataFrame read from the spreadsheet
    merged_df,       \* result of the merge step
    results,         \* output rows appended by the analyze loop
    verdicts,        \* (remark, status, error_type) returned for each merged row
    final_df,        \* the report
    error,           \* the st.error message shown, if any
    text,            \* Fact Extractor: input text
    data,            \* Fact Extractor: parse_document_data(text)
    excel_name,      \* Name Matcher: first argument
    doc_name,        \* Name Matcher: second argument
    name_result      \* Name Matcher: check_name_match(excel_name, doc_name)

pipeVars == <<pc, pdf_i, uploaded_excel, uploaded_pdfs, extracted_docs, df_docs, df_user,
              merged_df, results, verdicts, final_df, error>>
parseVars == <<text, data>>
nameVars == <<excel_name, doc_name, name_result>>
vars == <<pipeVars, parseVars, nameVars>>

---------------------------------------------------------------------------
(* Bounds of the model *)
MaxExcelLen == 3     \* characters of a spreadsheet name given to the Name Matcher
MaxDocLen == 4       \* characters of a document name given to the Name Matcher
MaxTextLen == 3      \* lines of a document text given to the Fact Extractor
MaxRows == 2         \* rows of the spreadsheet
MaxDocs == 2         \* uploaded documents

---------------------------------------------------------------------------
(* Python values *)
S(chars) == [k |-> "str", s |-> chars]
None == [k |-> "none", s |-> <<>>]
NaN == [k |-> "nan", s |-> <<>>]

\* bool(v): None and "" are falsy; a non-empty str and the float NaN are truthy
Truthy(v) == v.k = "nan" \/ (v.k = "str" /\ v.s # <<>>)

\* str(v)
Str(v) == CASE v.k = "str" -> v.s
            [] v.k = "nan" -> <<"n", "a", "n">>
            [] OTHER -> <<"N", "o", "n", "e">>

UpperSeq == <<"A","B","C","D","E","F","G","H","I","J","K","L","M",
              "N","O","P","Q","R","S","T","U","V","W","X","Y","Z">>
LowerSeq == <<"a","b","c","d","e","f","g","h","i","j","k","l","m",
              "n","o","p","q","r","s","t","u","v","w","x","y","z">>
Digits == {"0","1","2","3","4","5","6","7","8","9"}
Range(f) == {f[i] : i \in DOMAIN f}

Upper == Range(UpperSeq)
Letters == Range(UpperSeq) \cup Range(LowerSeq)
Spaces == {" ", "\t", "\n"}
WordChars == Letters \cup Digits \cup {"_"}
LowerOf == [c \in Upper |-> LowerSeq[CHOOSE i \in 1..26 : UpperSeq[i] = c]]

LowerChar(c) == IF c \in Upper THEN LowerOf[c] ELSE c
\* str.lower()
Lower(s) == [i \in 1..Len(s) |-> LowerChar(s[i])]

IsSpace(c) == c \in Spaces
IsWordChar(c) == c \in WordChars

\* str.strip()
Strip(s) ==
    LET keep == {i \in 1..Len(s) : ~IsSpace(s[i])}
        lo == CHOOSE i \in keep : \A j \in keep : i <= j
        hi == CHOOSE i \in keep : \A j \in keep : j <= i
    IN IF keep = {} THEN <<>> ELSE SubSeq(s, lo, hi)

\* str.split(): the maximal runs of non-whitespace characters, in order
RECURSIVE SplitFrom(_, _, _, _)
SplitFrom(s, i, cur, acc) ==
    IF i > Len(s) THEN (IF cur = <<>> THEN acc ELSE Append(acc, cur))
    ELSE IF IsSpace(s[i])
         THEN SplitFrom(s, i + 1, <<>>, IF cur = <<>> THEN acc ELSE Append(acc, cur))
         ELSE SplitFrom(s, i + 1, Append(cur, s[i]), acc)
Split(s) == SplitFrom(s, 1, <<>>, <<>>)

\* " ".join(words)
RECURSIVE Join(_)
Join(words) ==
    IF words = <<>> THEN <<>>
    ELSE IF Len(words) = 1 THEN words[1]
    ELSE words[1] \o <<" ">> \o Join(Tail(words))

\* str.startswith
StartsWith(token, prefix) ==
    Len(prefix) <= Len(token) /\ SubSeq(token, 1, Len(prefix)) = prefix

---------------------------------------------------------------------------
(* Text Normalizer and Name Matcher *)

\* re.sub(r'[^\w\s]', ' ', s)
SubNonWord(s) ==
    [i \in 1..Len(s) |-> IF IsWordChar(s[i]) \/ IsSpace(s[i]) THEN s[i] ELSE " "]

normalize_text(v) ==
    IF ~Truthy(v) THEN <<>> ELSE Strip(Lower(SubNonWord(Str(v))))

\* the body of the loop over doc_tokens: 1 when doc_word is counted, else 0
TokenCounts(doc_word, excel_tokens) ==
    IF doc_word \in Range(excel_tokens) THEN 1
    ELSE IF Len(doc_word) = 1
            /\ \E j \in DOMAIN excel_tokens : StartsWith(excel_tokens[j], doc_word)
         THEN 1
         ELSE 0

RECURSIVE CountMatches(_, _, _, _)
CountMatches(doc_tokens, excel_tokens, i, matches) ==
    IF i > Len(doc_tokens) THEN matches
    ELSE CountMatches(doc_tokens, excel_tokens, i + 1,
                      matches + TokenCounts(doc_tokens[i], excel_tokens))

\* matches / len(doc_tokens) >= 0.5, in integers
check_name_match(en, dn) ==
    IF ~Truthy(dn) \/ ~Truthy(en) THEN FALSE
    ELSE LET excel_tokens == Split(normalize_text(en))
             doc_tokens == Split(normalize_text(dn))
             matches == CountMatches(doc_tokens, excel_tokens, 1, 0)
         IN Len(doc_tokens) > 0 /\ 2 * matches >= Len(doc_tokens)

---------------------------------------------------------------------------
(* Fact Extractor: re.search over the characters of the text.  A pattern is *)
(* an operator E(t, i) giving the end positions (exclusive) of its matches  *)
(* that start at position i; re.search takes the leftmost start.            *)

VinChars == (Upper \ {"I", "O", "Q"}) \cup Digits

AllIn(t, a, b, class) == b <= Len(t) /\ \A j \in a..b : t[j] \in class

\* \b at the gap before position i
WordBoundary(t, i) ==
    LET w(j) == j >= 1 /\ j <= Len(t) /\ IsWordChar(t[j])
    IN w(i - 1) # w(i)

\* the position after the longest run of class characters starting at i
RECURSIVE RunEnd(_, _, _)
RunEnd(t, i, class) ==
    IF i > Len(t) \/ t[i] \notin class THEN i ELSE RunEnd(t, i + 1, class)

\* a literal under re.IGNORECASE (lit is lower case)
LitAt(t, i, lit) ==
    i + Len(lit) - 1 <= Len(t) /\ \A j \in 1..Len(lit) : LowerChar(t[i + j - 1]) = lit[j]

\* str1 in str2
Contains(t, lit) == \E i \in 1..Len(t) : LitAt(t, i, lit)

\* the leftmost start of a match, or 0
Leftmost(t, E(_, _)) ==
    LET starts == {i \in 1..Len(t) : E(t, i) # 0}
    IN IF starts = {} THEN 0 ELSE CHOOSE i \in starts : \A j \in starts : i <= j

\* re.search(...).group(0), or None
Group0(t, E(_, _)) ==
    LET i == Leftmost(t, E)
    IN IF i = 0 THEN None ELSE S(SubSeq(t, i, E(t, i) - 1))

\* r'(temporary\s*registration|temp\s*regn)'
temp_keyword_pattern(t, i) ==
    IF LitAt(t, i, <<"t","e","m","p","o","r","a","r","y">>)
       /\ LitAt(t, RunEnd(t, i + 9, Spaces), <<"r","e","g","i","s","t","r","a","t","i","o","n">>)
    THEN RunEnd(t, i + 9, Spaces) + 12
    ELSE IF LitAt(t, i, <<"t","e","m","p">>)
            /\ LitAt(t, RunEnd(t, i + 4, Spaces), <<"r","e","g","n">>)
    THEN RunEnd(t, i + 4, Spaces) + 4
    ELSE 0

\* r'\b[A-Z]{2}[0-9]{1,2}[A-Z]{1,3}[0-9]{4}\b'
perm_pattern(t, i) ==
    LET fits(a, b) ==
            /\ AllIn(t, i + 2, i + 1 + a, Digits)
            /\ AllIn(t, i + 2 + a, i + 1 + a + b, Upper)
            /\ AllIn(t, i + 2 + a + b, i + 5 + a + b, Digits)
            /\ WordBoundary(t, i + 6 + a + b)
        ab == {x \in (1..2) \X (1..3) : fits(x[1], x[2])}
        m == CHOOSE x \in ab : TRUE
    IN IF WordBoundary(t, i) /\ AllIn(t, i, i + 1, Upper) /\ ab # {}
       THEN i + 6 + m[1] + m[2] ELSE 0

\* r'\b[0-9]{2}BH[0-9]{4}[A-Z]{1,2}\b'
bh_pattern(t, i) ==
    LET fits(a) == AllIn(t, i + 8, i + 7 + a, Upper) /\ WordBoundary(t, i + 8 + a)
        as == {a \in 1..2 : fits(a)}
    IN IF /\ WordBoundary(t, i)
          /\ AllIn(t, i, i + 1, Digits)
          /\ AllIn(t, i + 2, i + 2, {"B"})
          /\ AllIn(t, i + 3, i + 3, {"H"})
          /\ AllIn(t, i + 4, i + 7, Digits)
          /\ as # {}
       THEN i + 8 + (CHOOSE a \in as : TRUE) ELSE 0

\* r'\b[A-HJ-NPR-Z0-9]{17}\b'
chassis_pattern(t, i) ==
    IF WordBoundary(t, i) /\ AllIn(t, i, i + 16, VinChars) /\ WordBoundary(t, i + 17)
    THEN i + 17 ELSE 0

\* r'\d{2}[-/]\d{2}[-/]\d{4}'
numeric_pattern(t, i) ==
    IF /\ AllIn(t, i, i + 1, Digits)
       /\ AllIn(t, i + 2, i + 2, {"-", "/"})
       /\ AllIn(t, i + 3, i + 4, Digits)
       /\ AllIn(t, i + 5, i + 5, {"-", "/"})
       /\ AllIn(t, i + 6, i + 9, Digits)
    THEN i + 10 ELSE 0

\* r'\d{1,2}[-\s][A-Za-z]{3}[-\s]\d{4}'
text_month_pattern(t, i) ==
    LET fits(a) ==
            /\ AllIn(t, i, i + a - 1, Digits)
            /\ AllIn(t, i + a, i + a, {"-"} \cup Spaces)
            /\ AllIn(t, i + a + 1, i + a + 3, Letters)
            /\ AllIn(t, i + a + 4, i + a + 4, {"-"} \cup Spaces)
            /\ AllIn(t, i + a + 5, i + a + 8, Digits)
        as == {a \in 1..2 : fits(a)}
    IN IF as # {} THEN i + 9 + (CHOOSE a \in as : TRUE) ELSE 0

\* f'(?:{numeric_pattern}|{text_month_pattern})': the first alternative that matches
date_pattern(t, i) ==
    IF numeric_pattern(t, i) # 0 THEN numeric_pattern(t, i) ELSE text_month_pattern(t, i)

\* a labelled date starting at i: label, \s*, "Date", [:\s]*, then group 1 =
\* date_pattern.  The start of group 1, or 0.
LabelledDate(t, i, labels) ==
    LET labs == {lab \in labels : LitAt(t, i, lab)}
        lab == CHOOSE x \in labs : TRUE
        d == RunEnd(t, i + Len(lab), Spaces)
        g == RunEnd(t, d + 4, {":"} \cup Spaces)
    IN IF labs # {} /\ LitAt(t, d, <<"d","a","t","e">>) /\ date_pattern(t, g) # 0
       THEN g ELSE 0

\* re.search(...).group(1) of a labelled date, or None
LabelledGroup1(t, labels) ==
    LET starts == {i \in 1..Len(t) : LabelledDate(t, i, labels) # 0}
        i == CHOOSE x \in starts : \A y \in starts : x <= y
        g == LabelledDate(t, i, labels)
    IN IF starts = {} THEN None ELSE S(SubSeq(t, g, date_pattern(t, g) - 1))

\* r'(?:Registration|Regn|Reg\.)\s*Date[:\s]*(' + date_pattern + ')'
reg_match(t) ==
    LabelledGroup1(t, {<<"r","e","g","i","s","t","r","a","t","i","o","n">>,
                       <<"r","e","g","n">>, <<"r","e","g",".">>})

\* r'Receipt\s*date[:\s]*(' + date_pattern + ')'
rec_match(t) == LabelledGroup1(t, {<<"r","e","c","e","i","p","t">>})

NameLabels == {<<"r","e","c","e","i","v","e","d"," ","f","r","o","m">>,
               <<"c","u","s","t","o","m","e","r"," ","n","a","m","e">>,
               <<"n","a","m","e">>, <<"m","r",".">>, <<"m","s",".">>}
NameClass == Letters \cup Spaces \cup {"."}

\* r'(?:Received From|Customer Name|Name|Mr\.|Ms\.)[:\s\.]*([A-Za-z\s\.]+)':
\* <<start, end>> of group 1 for a match starting at i, or <<0, 0>>.  [:\s\.]*
\* is greedy; when no name character follows it, it gives back its last space
\* or period, which alone becomes group 1.
NameGroup(t, i) ==
    LET labs == {lab \in NameLabels : LitAt(t, i, lab)}
        lab == CHOOSE x \in labs : TRUE
        j == i + Len(lab)
        k == RunEnd(t, j, {":", "."} \cup Spaces)
        back == {x \in j..(k - 1) : t[x] \in Spaces \cup {"."}}
        last == CHOOSE x \in back : \A y \in back : y <= x
    IN IF labs = {} THEN <<0, 0>>
       ELSE IF k <= Len(t) /\ t[k] \in NameClass THEN <<k, RunEnd(t, k, NameClass)>>
       ELSE IF back # {} THEN <<last, last + 1>>
       ELSE <<0, 0>>

\* name_match.group(1), or None
name_match(t) ==
    LET starts == {i \in 1..Len(t) : NameGroup(t, i) # <<0, 0>>}
        i == CHOOSE x \in starts : \A y \in starts : x <= y
        g == NameGroup(t, i)
    IN IF starts = {} THEN None ELSE S(SubSeq(t, g[1], g[2] - 1))

\* words[:n]
FirstN(words, n) == SubSeq(words, 1, IF Len(words) < n THEN Len(words) ELSE n)

REG_PERMANENT == S(<<"P","e","r","m","a","n","e","n","t">>)
REG_TEMPORARY == S(<<"T","e","m","p","o","r","a","r","y">>)
VEH_NEW == S(<<"N","E","W">>)
VEH_NOT_FOUND == S(<<"N","o","t"," ","F","o","u","n","d">>)

\* variant (not the code): the NEW sentinel is Permanent only when no keyword was found
RegType_KeywordWins(found_perm_number, vehicle_no, has_temp_keyword) ==
    IF found_perm_number THEN REG_PERMANENT
    ELSE IF vehicle_no = VEH_NEW /\ ~has_temp_keyword THEN REG_PERMANENT
    ELSE REG_TEMPORARY

\* step 3 of parse_document_data: the registration type
RegType(found_perm_number, vehicle_no, has_temp_keyword) ==
    IF found_perm_number THEN REG_PERMANENT
    ELSE IF vehicle_no = VEH_NEW THEN REG_PERMANENT
    ELSE IF has_temp_keyword THEN REG_TEMPORARY
    ELSE REG_TEMPORARY

\* variant (not the code): the first date-shaped token is always taken
FallbackDate_Always(t, reg_date_specific, receipt_date_specific) ==
    Group0(t, date_pattern)

\* step 6 of parse_document_data: the fallback date
FallbackDate(t, reg_date_specific, receipt_date_specific) ==
    IF ~Truthy(reg_date_specific) /\ ~Truthy(receipt_date_specific)
    THEN Group0(t, date_pattern)
    ELSE None

parse_document_data(t) ==
    LET has_temp_keyword == Leftmost(t, temp_keyword_pattern) # 0
        veh_match == IF Leftmost(t, perm_pattern) # 0 THEN Group0(t, perm_pattern)
                     ELSE Group0(t, bh_pattern)
        found_perm_number == veh_match # None
        vehicle_no == IF found_perm_number THEN veh_match
                      ELSE IF Contains(t, <<"n","e","w">>) THEN VEH_NEW ELSE VEH_NOT_FOUND
        nm == name_match(t)
        reg_date_specific == reg_match(t)
        receipt_date_specific == rec_match(t)
    IN [vehicle_no |-> vehicle_no,
        reg_type |-> RegType(found_perm_number, vehicle_no, has_temp_keyword),
        doc_chassis |-> Group0(t, chassis_pattern),
        doc_name |-> IF nm = None THEN None
                     ELSE S(Join(FirstN(Split(Strip(nm.s)), 4))),
        reg_date_specific |-> reg_date_specific,
        receipt_date_specific |-> receipt_date_specific,
        fallback_date |-> FallbackDate(t, reg_date_specific, receipt_date_specific)]

\* extract_text_from_pdf_upload: the page texts, each followed by "\n"
RECURSIVE PageText(_)
PageText(lines) ==
    IF lines = <<>> THEN <<>> ELSE lines[1] \o <<"\n">> \o PageText(Tail(lines))

(* Lines a document text is made of *)
LinePlate == <<"M","H","1","2","A","B","1","2","3","4">>
LineBH == <<"2","2","B","H","1","2","3","4","A","A">>
LineNew == <<"N","e","w"," ","V","e","h","i","c","l","e">>
LineTemp == <<"T","e","m","p"," ","R","e","g","n">>
LineVin1 == <<"M","A","3","E","R","L","F","1","S","0","0","1","2","3","4","5","6">>
LineVin2 == <<"M","A","3","E","R","L","F","1","S","0","0","6","5","4","3","2","1">>
LineNameJo == <<"N","a","m","e",":"," ","J","o"," ","L","i">>
LineNameN == <<"M","r","."," ","N"," ","L","i">>
LineRegDate == <<"R","e","g","n"," ","D","a","t","e",":"," ","0","1","-","0","1","-","2","0","2","4">>
LineReceiptDate == <<"R","e","c","e","i","p","t"," ","d","a","t","e",":"," ","0","2","/","0","2","/","2","0","2","4">>
LineDate == <<"5"," ","M","a","y"," ","2","0","2","4">>

ParseLines == {LinePlate, LineBH, LineNew, LineTemp, LineVin1, LineNameJo,
               LineRegDate, LineReceiptDate, LineDate}

RECURSIVE SeqsUpTo(_, _)
SeqsUpTo(set, n) ==
    IF n = 0 THEN {<<>>}
    ELSE LET shorter == SeqsUpTo(set, n - 1)
         IN shorter \cup {Append(s, x) : s \in shorter, x \in set}

---------------------------------------------------------------------------
(* Name Matcher on its own: inputs drawn from bounded sets *)
NameChars == {"n", "A", " ", "."}

RECURSIVE StringsUpTo(_, _)
StringsUpTo(chars, n) ==
    IF n = 0 THEN {<<>>}
    ELSE LET shorter == StringsUpTo(chars, n - 1)
         IN shorter \cup {Append(s, c) : s \in shorter, c \in chars}

NameValues(n) == {None, NaN} \cup {S(s) : s \in StringsUpTo(NameChars, n)}

Idle == [k |-> "idle"]

PipeIdle ==
    /\ pc = "off" /\ pdf_i = 0 /\ uploaded_excel = Idle /\ uploaded_pdfs = <<>>
    /\ extracted_docs = <<>> /\ df_docs = <<>> /\ df_user = Idle
    /\ merged_df = <<>> /\ results = <<>> /\ verdicts = <<>>
    /\ final_df = Idle /\ error = Idle
ParseIdle == text = <<>> /\ data = Idle
Ret(v) == [k |-> "ret", v |-> v]
NameIdle == excel_name = None /\ doc_name = None /\ name_result = Idle

InitName ==
    /\ PipeIdle /\ ParseIdle
    /\ excel_name \in NameValues(MaxExcelLen)
    /\ doc_name \in NameValues(MaxDocLen)
    /\ name_result = Idle

CallNameMatch ==
    /\ name_result = Idle
    /\ name_result' = Ret(check_name_match(excel_name, doc_name))
    /\ UNCHANGED <<pipeVars, parseVars, excel_name, doc_name>>

NextName == CallNameMatch
SpecName == InitName /\ [][NextName]_vars

---------------------------------------------------------------------------
(* Fact Extractor on its own: texts of up to MaxTextLen lines *)
InitParse ==
    /\ PipeIdle /\ NameIdle
    /\ \E lines \in SeqsUpTo(ParseLines, MaxTextLen) : text = PageText(lines)
    /\ data = Idle

CallParse ==
    /\ data = Idle
    /\ data' = parse_document_data(text)
    /\ UNCHANGED <<pipeVars, nameVars, text>>

NextParse == CallParse
SpecParse == InitParse /\ [][NextParse]_vars

---------------------------------------------------------------------------
(* The "Run Verification" handler.  A DataFrame is [columns, rows]: columns  *)
(* is the sequence of headers and each row the sequence of its cells.  A     *)
(* merged row carries the cells and the document columns by name.            *)

COL_CHASSIS == <<"C","h","a","s","s","i","s"," ","n","u","m","b","e","r">>
COL_NAME == <<"C","u","s","t","o","m","e","r"," ","N","a","m","e">>
COL_STATUS == <<"R","T","O"," ","s","t","a","t","u","s">>
COL_REMARKS == <<"R","e","m","a","r","k","s">>
COL_DATE == <<"V","e","r","i","f","i","c","a","t","i","o","n"," ","D","a","t","e">>
COL_VEH == <<"D","o","c"," ","V","e","h","i","c","l","e"," ","N","u","m">>

chassis_variations == <<<<"c","h","a","s","s","i","s"," ","n","u","m","b","e","r">>,
                        <<"v","i","n"," ","n","u","m","b","e","r">>>>
name_variations == <<<<"c","u","s","t","o","m","e","r"," ","n","a","m","e">>>>

\* a column a merged row does not have: row.get returns its default
Absent == [k |-> "absent", s |-> <<>>]
Get(row, key, default) == IF row[key] = Absent THEN default ELSE row[key]

MinOf(set) == CHOOSE x \in set : \A y \in set : x <= y

\* the elements of seq at the positions in keep, in order
RECURSIVE PickFrom(_, _, _)
PickFrom(seq, i, keep) ==
    IF i > Len(seq) THEN <<>>
    ELSE (IF i \in keep THEN <<seq[i]>> ELSE <<>>) \o PickFrom(seq, i + 1, keep)

\* variant (not the code): a header that contains the keyword "chassis", "vin" or "name" is accepted
find_column_fuzzy(columns, allowed_names) ==
    LET keywords == IF Len(allowed_names) = 2
                    THEN {<<"c","h","a","s","s","i","s">>, <<"v","i","n">>}
                    ELSE {<<"n","a","m","e">>}
        hits == {j \in DOMAIN columns : \E w \in keywords : Contains(columns[j], w)}
    IN IF hits = {} THEN None ELSE S(columns[MinOf(hits)])

find_column_case_insensitive(columns, allowed_names) ==
    LET allowed_lower == {Strip(Lower(allowed_names[n])) : n \in DOMAIN allowed_names}
        hits == {j \in DOMAIN columns : Strip(Lower(columns[j])) \in allowed_lower}
    IN IF hits = {} THEN None ELSE S(columns[MinOf(hits)])

\* df.drop(columns=...) for the positions not in keep
KeepColumns(df, keep) ==
    [columns |-> PickFrom(df.columns, 1, keep),
     rows |-> [r \in DOMAIN df.rows |-> PickFrom(df.rows[r], 1, keep)]]

\* "CLEAN COLUMNS BEFORE MERGE": drop, rename, remove duplicate columns
CleanColumns(df, chassis_col, name_col) ==
    LET dropped == KeepColumns(df,
            {j \in DOMAIN df.columns :
                ~(df.columns[j] \in {COL_CHASSIS, COL_NAME}
                  /\ df.columns[j] \notin {chassis_col, name_col})})
        renamed == [dropped EXCEPT !.columns =
            [j \in DOMAIN dropped.columns |->
                IF dropped.columns[j] = chassis_col THEN COL_CHASSIS
                ELSE IF dropped.columns[j] = name_col THEN COL_NAME
                ELSE dropped.columns[j]]]
    IN KeepColumns(renamed,
            {j \in DOMAIN renamed.columns :
                \A h \in 1..(j - 1) : renamed.columns[h] # renamed.columns[j]})

\* row.get(col_name) on the cells of a row
Cell(columns, cells, col_name) ==
    LET hits == {j \in DOMAIN columns : columns[j] = col_name}
    IN IF hits = {} THEN None ELSE cells[MinOf(hits)]

\* Series.astype(str).str.strip() on one value
StrStrip(v) == S(Strip(Str(v)))

DocColumns == {"doc_name", "doc_chassis", "reg_type", "vehicle_no",
               "reg_date_specific", "receipt_date_specific", "fallback_date"}

MergedRow(cells, doc) ==
    [cells |-> cells,
     doc_name |-> doc.doc_name, doc_chassis |-> doc.doc_chassis,
     reg_type |-> doc.reg_type, vehicle_no |-> doc.vehicle_no,
     reg_date_specific |-> doc.reg_date_specific,
     receipt_date_specific |-> doc.receipt_date_specific,
     fallback_date |-> doc.fallback_date]

\* the document columns of a left row with no partner: NaN in each
NoPartner == [c \in DocColumns |-> NaN]
\* merged_df = df_user.copy(); merged_df['doc_chassis'] = None
NoDocColumns == [c \in DocColumns |-> IF c = "doc_chassis" THEN None ELSE Absent]

\* the right rows whose doc_chassis equals the left key, in the right's order
Partners(key, docs) ==
    PickFrom(docs, 1, {d \in DOMAIN docs : docs[d].doc_chassis = key})

\* pd.merge(df_user, df_docs, left_on='Chassis number', right_on='doc_chassis',
\* how='left'): the left rows in order, each once per partner, or once with NaN
RECURSIVE MergeLeft(_, _, _, _)
MergeLeft(columns, rows, docs, r) ==
    IF r > Len(rows) THEN <<>>
    ELSE LET p == Partners(Cell(columns, rows[r], COL_CHASSIS), docs)
             here == IF p = <<>> THEN <<MergedRow(rows[r], NoPartner)>>
                     ELSE [d \in DOMAIN p |-> MergedRow(rows[r], p[d])]
         IN here \o MergeLeft(columns, rows, docs, r + 1)

\* df_user['Chassis number'] = df_user['Chassis number'].astype(str).str.strip()
StripChassisColumn(df) ==
    [df EXCEPT !.rows = [r \in DOMAIN df.rows |->
        [j \in DOMAIN df.columns |->
            IF df.columns[j] = COL_CHASSIS THEN StrStrip(df.rows[r][j]) ELSE df.rows[r][j]]]]

\* df_docs['doc_chassis'] = df_docs['doc_chassis'].astype(str).str.strip()
StripDocChassis(docs) ==
    [d \in DOMAIN docs |-> [docs[d] EXCEPT !.doc_chassis = StrStrip(docs[d].doc_chassis)]]

\* step C, MERGE
Merge(user, docs) ==
    IF docs # <<>>
    THEN MergeLeft(user.columns, StripChassisColumn(user).rows, StripDocChassis(docs), 1)
    ELSE [r \in DOMAIN user.rows |-> MergedRow(user.rows[r], NoDocColumns)]

REMARK_INCONCLUSIVE == "Inconclusive Documentation provided - RTO challan/VAHAN screenshot/Tax paid receipt attached is incorrect"
REMARK_INCOMPLETE == "Incomplete Documentation provided - RTO challan/VAHAN screenshot/Tax paid receipt is not attached."
REMARK_MANUAL == "Please verify manually"

Verdict(remark, status, error_type) ==
    [remark |-> remark, status |-> status, error_type |-> error_type]

\* variant (not the code): the Permanent and Temporary outcomes are swapped
PrimaryCheck_Swapped(name_is_match, is_permanent) ==
    IF name_is_match /\ ~is_permanent THEN Verdict("Approved", "Approve", "None")
    ELSE IF name_is_match /\ is_permanent
    THEN Verdict(REMARK_INCOMPLETE, "Hold", "TEMP REGISTRATION")
    ELSE Verdict(REMARK_INCONCLUSIVE, "Hold", "NAME MISMATCH")

\* analyze_row, "PRIMARY CHECK" (chassis_match is the constant True)
PrimaryCheck(name_is_match, is_permanent) ==
    LET chassis_match == TRUE
    IN IF chassis_match /\ name_is_match /\ is_permanent
       THEN Verdict("Approved", "Approve", "None")
       ELSE IF chassis_match /\ name_is_match /\ ~is_permanent
       THEN Verdict(REMARK_INCOMPLETE, "Hold", "TEMP REGISTRATION")
       ELSE IF chassis_match /\ ~name_is_match
       THEN Verdict(REMARK_INCONCLUSIVE, "Hold", "NAME MISMATCH")
       ELSE Verdict(REMARK_MANUAL, "Pending", "UNKNOWN ERROR")

analyze_row(columns, row, doc_data, df_docs_all) ==
    LET en == Cell(columns, row.cells, COL_NAME)
    IN IF ~Truthy(doc_data.doc_chassis)
       THEN IF /\ Truthy(en)
               /\ df_docs_all # <<>>
               /\ \E d \in DOMAIN df_docs_all : check_name_match(en, df_docs_all[d].doc_name)
            THEN Verdict(REMARK_INCONCLUSIVE, "Hold", "NAME MATCH / CHASSIS MISMATCH")
            ELSE Verdict(REMARK_MANUAL, "Pending", "NO DOCUMENT FOUND")
       ELSE PrimaryCheck(check_name_match(en, doc_data.doc_name),
                         doc_data.reg_type = REG_PERMANENT)

\* the doc_data dict built from a merged row
DocData(row) ==
    [doc_name |-> Get(row, "doc_name", None),
     doc_chassis |-> Get(row, "doc_chassis", None),
     reg_type |-> Get(row, "reg_type", None),
     vehicle_no |-> Get(row, "vehicle_no", VEH_NOT_FOUND)]

\* variant (not the code): the receipt date is preferred to the registration date
FinalRegDate_ReceiptFirst(reg_date, receipt_date, fallback_date) ==
    IF Truthy(receipt_date) /\ Strip(Str(receipt_date)) # <<>> THEN receipt_date
    ELSE IF Truthy(reg_date) /\ Strip(Str(reg_date)) # <<>> THEN reg_date
    ELSE fallback_date

\* "DATE LOGIC"
FinalRegDate(reg_date, receipt_date, fallback_date) ==
    IF Truthy(reg_date) /\ Strip(Str(reg_date)) # <<>> THEN reg_date
    ELSE IF Truthy(receipt_date) /\ Strip(Str(receipt_date)) # <<>> THEN receipt_date
    ELSE fallback_date

\* the output row of one merged row: the cells and the four report columns
OutputRow(columns, row, df_docs_all) ==
    LET doc_data == DocData(row)
        final_reg_date == FinalRegDate(Get(row, "reg_date_specific", None),
                                       Get(row, "receipt_date_specific", None),
                                       Get(row, "fallback_date", None))
        v == analyze_row(columns, row, doc_data, df_docs_all)
    IN ("cells" :> row.cells) @@ ("Verification Date" :> final_reg_date)
       @@ ("Doc Vehicle Num" :> doc_data.vehicle_no)
       @@ ("RTO status" :> v.status) @@ ("Remarks" :> v.remark)

\* "Reorder": the priority columns, then the others in their order
Reorder(cols) ==
    LET priority == <<COL_CHASSIS, COL_NAME, COL_STATUS, COL_REMARKS>>
    IN priority \o PickFrom(cols, 1, {j \in DOMAIN cols : cols[j] \notin Range(priority)})

\* extract_text_from_pdf_upload: "" when the file cannot be opened
extract_text_from_pdf_upload(pdf_file) ==
    IF pdf_file.readable THEN PageText(pdf_file.lines) ELSE <<>>

\* variant (not the code): the list is overwritten instead of appended to
AppendDoc_Overwrite(docs, doc_info) ==
    IF Truthy(doc_info.doc_chassis) THEN <<doc_info>> ELSE docs

\* if doc_info['doc_chassis']: extracted_docs.append(doc_info)
AppendDoc(docs, doc_info) ==
    IF Truthy(doc_info.doc_chassis) THEN Append(docs, doc_info) ELSE docs

(* Inputs *)
NoFile == [k |-> "nofile"]
Unreadable == [k |-> "unreadable"]

HdrVin == <<" ","V","I","N"," ","N","u","m","b","e","r"," ">>
HdrCustUpper == <<"C","U","S","T","O","M","E","R"," ","N","A","M","E">>
HdrNotes == <<"N","o","t","e","s">>
HdrName == <<"N","a","m","e">>
HdrChassis == <<"C","h","a","s","s","i","s">>

NameJo == S(<<"J","o"," ","L","i">>)
NameNan == S(<<"N","a","n"," ","R","o","y">>)
CellVin1 == S(<<" ">> \o LineVin1)
CellVin2 == S(LineVin2)
CellOther == S(<<"x">>)

\* a layout names, for each column, its header and the cell it holds
Plain == << <<COL_CHASSIS, "id">>, <<COL_NAME, "name">> >>
Synonyms == << <<HdrVin, "id">>, <<HdrNotes, "other">>, <<COL_CHASSIS, "other">>,
               <<HdrCustUpper, "name">> >>
NoNameColumn == << <<COL_CHASSIS, "id">>, <<HdrName, "name">> >>
NoChassisColumn == << <<HdrChassis, "id">>, <<COL_NAME, "name">> >>

RowInputs == {CellVin1, CellVin2} \X {NameJo, NameNan}

Sheet(layout, rowlist) ==
    [k |-> "sheet",
     columns |-> [j \in DOMAIN layout |-> layout[j][1]],
     rows |-> [r \in DOMAIN rowlist |-> [j \in DOMAIN layout |->
                  CASE layout[j][2] = "id" -> rowlist[r][1]
                    [] layout[j][2] = "name" -> rowlist[r][2]
                    [] OTHER -> CellOther]]]

Sheets ==
    {Sheet(layout, rowlist) : layout \in {Plain, Synonyms},
                              rowlist \in SeqsUpTo(RowInputs, MaxRows)}
    \cup {Sheet(layout, <<<<CellVin1, NameJo>>>>) : layout \in {NoNameColumn, NoChassisColumn}}

Pdf(lines) == [readable |-> TRUE, lines |-> lines]
PdfPool ==
    {Pdf(<<LineVin1, LinePlate, LineRegDate, LineReceiptDate, LineNameJo>>),
     Pdf(<<LineVin1, LineTemp, LineReceiptDate, LineNameN>>),
     Pdf(<<LineVin2, LineDate>>),
     Pdf(<<LineNew, LineNameJo>>),
     [readable |-> FALSE, lines |-> <<>>]}

\* text = extract_text_from_pdf_upload(pdf_file); doc_info = parse_document_data(text).
\* The facts of the pool's documents are computed once and looked up.
PoolFacts == [p \in PdfPool |-> parse_document_data(extract_text_from_pdf_upload(p))]
DocInfo(pdf_file) ==
    IF pdf_file \in PdfPool THEN PoolFacts[pdf_file]
    ELSE parse_document_data(extract_text_from_pdf_upload(pdf_file))

Init ==
    /\ ParseIdle /\ NameIdle
    /\ pc = "ready"
    /\ uploaded_excel \in {NoFile, Unreadable} \cup Sheets
    /\ uploaded_pdfs \in SeqsUpTo(PdfPool, MaxDocs)
    /\ pdf_i = 0
    /\ extracted_docs = <<>> /\ df_docs = <<>> /\ df_user = Idle
    /\ merged_df = <<>> /\ results = <<>> /\ verdicts = <<>>
    /\ final_df = Idle /\ error = Idle

\* the button, with both inputs present: the PDF loop starts
ClickRun ==
    /\ pc = "ready"
    /\ uploaded_excel # NoFile /\ uploaded_pdfs # <<>>
    /\ pc' = "pdfs" /\ pdf_i' = 1 /\ extracted_docs' = <<>>
    /\ UNCHANGED <<uploaded_excel, uploaded_pdfs, df_docs, df_user, merged_df,
                   results, verdicts, final_df, error, parseVars, nameVars>>

\* the button, with an input missing
ClickRunMissingInput ==
    /\ pc = "ready"
    /\ ~(uploaded_excel # NoFile /\ uploaded_pdfs # <<>>)
    /\ pc' = "stopped"
    /\ error' = [msg |-> "Please upload both the Excel file and the PDF documents."]
    /\ UNCHANGED <<uploaded_excel, uploaded_pdfs, pdf_i, extracted_docs, df_docs, df_user,
                   merged_df, results, verdicts, final_df, parseVars, nameVars>>

\* one iteration of the PDF loop
ProcessPdf ==
    /\ pc = "pdfs" /\ pdf_i <= Len(uploaded_pdfs)
    /\ extracted_docs' = AppendDoc(extracted_docs, DocInfo(uploaded_pdfs[pdf_i]))
    /\ pdf_i' = pdf_i + 1
    /\ UNCHANGED <<pc, uploaded_excel, uploaded_pdfs, df_docs, df_user, merged_df,
                   results, verdicts, final_df, error, parseVars, nameVars>>

\* pd.read_excel raises
ReadExcelFails ==
    /\ pc = "pdfs" /\ pdf_i > Len(uploaded_pdfs)
    /\ uploaded_excel = Unreadable
    /\ df_docs' = extracted_docs
    /\ pc' = "stopped"
    /\ error' = [msg |-> "Error reading Excel file."]
    /\ UNCHANGED <<uploaded_excel, uploaded_pdfs, pdf_i, extracted_docs, df_user, merged_df,
                   results, verdicts, final_df, parseVars, nameVars>>

ReadExcel(file) == [columns |-> file.columns, rows |-> file.rows]

\* a required column is not found
ColumnError ==
    /\ pc = "pdfs" /\ pdf_i > Len(uploaded_pdfs)
    /\ uploaded_excel.k = "sheet"
    /\ LET df == ReadExcel(uploaded_excel)
           chassis_col == find_column_case_insensitive(df.columns, chassis_variations)
           name_col == find_column_case_insensitive(df.columns, name_variations)
       IN /\ ~Truthy(chassis_col) \/ ~Truthy(name_col)
          /\ df_user' = df
          /\ error' = [msg |-> "Column Error", found |-> df.columns]
    /\ df_docs' = extracted_docs
    /\ pc' = "stopped"
    /\ UNCHANGED <<uploaded_excel, uploaded_pdfs, pdf_i, extracted_docs, merged_df,
                   results, verdicts, final_df, parseVars, nameVars>>

\* steps B and C: read the spreadsheet, resolve and clean the columns, merge
LoadAndMerge ==
    /\ pc = "pdfs" /\ pdf_i > Len(uploaded_pdfs)
    /\ uploaded_excel.k = "sheet"
    /\ LET df == ReadExcel(uploaded_excel)
           chassis_col == find_column_case_insensitive(df.columns, chassis_variations)
           name_col == find_column_case_insensitive(df.columns, name_variations)
           clean == CleanColumns(df, chassis_col.s, name_col.s)
       IN /\ Truthy(chassis_col) /\ Truthy(name_col)
          /\ df_user' = (IF extracted_docs # <<>> THEN StripChassisColumn(clean) ELSE clean)
          /\ df_docs' = (IF extracted_docs # <<>> THEN StripDocChassis(extracted_docs)
                         ELSE extracted_docs)
          /\ merged_df' = Merge(clean, extracted_docs)
    /\ pc' = "analyze"
    /\ UNCHANGED <<uploaded_excel, uploaded_pdfs, pdf_i, extracted_docs,
                   results, verdicts, final_df, error, parseVars, nameVars>>

\* one iteration of the analyze loop
AnalyzeRow ==
    /\ pc = "analyze" /\ Len(results) < Len(merged_df)
    /\ LET row == merged_df[Len(results) + 1]
       IN /\ verdicts' = Append(verdicts,
                 analyze_row(df_user.columns, row, DocData(row), df_docs))
          /\ results' = Append(results, OutputRow(df_user.columns, row, df_docs))
    /\ UNCHANGED <<pc, uploaded_excel, uploaded_pdfs, pdf_i, extracted_docs, df_docs, df_user,
                   merged_df, final_df, error, parseVars, nameVars>>

ReportColumns(user_columns) == Reorder(user_columns \o <<COL_DATE, COL_VEH, COL_STATUS, COL_REMARKS>>)

\* final_df and its reordering
BuildReport ==
    /\ pc = "analyze" /\ Len(results) = Len(merged_df)
    /\ results # <<>>
    /\ final_df' = [columns |-> ReportColumns(df_user.columns), rows |-> results]
    /\ pc' = "done"
    /\ UNCHANGED <<uploaded_excel, uploaded_pdfs, pdf_i, extracted_docs, df_docs, df_user,
                   merged_df, results, verdicts, error, parseVars, nameVars>>

\* a spreadsheet with no rows: final_df has no columns and final_df[new_order]
\* raises KeyError
BuildReportNoRows ==
    /\ pc = "analyze" /\ Len(results) = Len(merged_df)
    /\ results = <<>>
    /\ pc' = "crashed"
    /\ UNCHANGED <<uploaded_excel, uploaded_pdfs, pdf_i, extracted_docs, df_docs, df_user,
                   merged_df, results, verdicts, final_df, error, parseVars, nameVars>>

Next ==
    \/ ClickRun \/ ClickRunMissingInput \/ ProcessPdf \/ ReadExcelFails
    \/ ColumnError \/ LoadAndMerge \/ AnalyzeRow \/ BuildReport \/ BuildReportNoRows

Spec == Init /\ [][Next]_vars

---------------------------------------------------------------------------
(* Claims about the Name Matcher *)

\* a name that is present: not null and not empty
Present(v) == v.k = "str" /\ v.s # <<>>

\* a document token is matched when it occurs among the spreadsheet tokens, or
\* is a single character that some spreadsheet token starts with
TokenMatched(w, excel_tokens) ==
    \/ \E j \in DOMAIN excel_tokens : excel_tokens[j] = w
    \/ Len(w) = 1 /\ \E j \in DOMAIN excel_tokens : excel_tokens[j][1] = w[1]

\* the document tokens covered, out of the total, reach one half
HalfCovered(en, dn) ==
    LET excel_tokens == Split(normalize_text(en))
        doc_tokens == Split(normalize_text(dn))
        matched == Cardinality({i \in DOMAIN doc_tokens : TokenMatched(doc_tokens[i], excel_tokens)})
    IN Len(doc_tokens) >= 1 /\ 2 * matched >= Len(doc_tokens)

\* C6: check_name_match returns true if and only if both names are present
\* (non-null, non-empty), the normalized document name has at least one token
\* and at least half of the document tokens are matched; an absent or empty
\* name never matches.
C6_NameMatchIff ==
    name_result # Idle =>
        (name_result.v <=> (Present(excel_name) /\ Present(doc_name)
                            /\ HalfCovered(excel_name, doc_name)))

---------------------------------------------------------------------------
(* Claims about the Fact Extractor *)

DatesPopulated(d) ==
    Cardinality({f \in {"reg_date_specific", "receipt_date_specific", "fallback_date"} :
                    d[f] # None})

\* C7 as stated: at most one of registrationDate, receiptDate and fallbackDate
\* is populated in every DocumentFact, also for texts with both labelled dates.
C7_AtMostOneDate == data # Idle => DatesPopulated(data) <= 1

\* C7 as amended: fallbackDate is populated only when neither labelled date is,
\* and more than one date is populated only when the text carries both a
\* labelled registration date and a labelled receipt date (then exactly those two).
C7_FallbackExclusive ==
    data # Idle =>
        /\ data.fallback_date # None =>
               data.reg_date_specific = None /\ data.receipt_date_specific = None
        /\ DatesPopulated(data) > 1 =>
               /\ reg_match(text) # None /\ rec_match(text) # None
               /\ data.fallback_date = None

\* a text with a labelled registration date and further date-shaped tokens has
\* been parsed: only the labelled date is populated
C7_Witness ==
    /\ data # Idle
    /\ data.reg_date_specific # None
    /\ data.receipt_date_specific = None
    /\ data.fallback_date = None
    /\ \E i \in 1..Len(text) : text_month_pattern(text, i) # 0

\* the text with one more line naming the temporary-registration keyword
WithKeyword(t, line) == t \o line \o <<"\n">>
KeywordLines == {<<"T","e","m","p"," ","R","e","g","n">>,
                 <<"t","e","m","p","o","r","a","r","y"," ","R","e","g","i","s","t","r","a","t","i","o","n">>}

\* C9: the type is Permanent if and only if a plate number (standard or BH
\* series) was found or the vehicle number is the NEW sentinel, and Temporary
\* otherwise; the temporary-registration keyword never changes the type.
C9_RegTypeClassification ==
    data # Idle =>
        LET plate == Leftmost(text, perm_pattern) # 0 \/ Leftmost(text, bh_pattern) # 0
            new == ~plate /\ Contains(text, <<"n","e","w">>)
        IN /\ data.reg_type = (IF plate \/ new THEN REG_PERMANENT ELSE REG_TEMPORARY)
           /\ new <=> data.vehicle_no = VEH_NEW
           /\ \A line \in KeywordLines :
                  /\ Leftmost(WithKeyword(text, line), temp_keyword_pattern) # 0
                  /\ parse_document_data(WithKeyword(text, line)).reg_type = data.reg_type

\* a text with the keyword, no plate and the word "new" has been classified
C9_Witness ==
    /\ data # Idle
    /\ Leftmost(text, temp_keyword_pattern) # 0
    /\ data.vehicle_no = VEH_NEW
    /\ data.reg_type = REG_PERMANENT

---------------------------------------------------------------------------
(* Claims about the pipeline *)

\* the merged row has an identifier-joined document fact
Joined(row) == row.doc_chassis.k = "str"

\* the document fact carried by a merged row
FactOf(row) == [c \in DocColumns |-> row[c]]

\* the input row's trimmed chassis identifier equals no chassis number of the join pool
NoFactFor(row) ==
    \A d \in DOMAIN extracted_docs :
        extracted_docs[d].doc_chassis # StrStrip(Cell(df_user.columns, row.cells, COL_CHASSIS))

RowName(row) == Cell(df_user.columns, row.cells, COL_NAME)

\* C1: a run that reaches the report has exactly one output row per spreadsheet
\* row, in the order of the spreadsheet, whatever the documents are (several may
\* carry the same chassis number).
C1_OneRowPerInput ==
    pc = "done" =>
        /\ Len(final_df.rows) = Len(uploaded_excel.rows)
        /\ \A k \in DOMAIN final_df.rows :
               k <= Len(df_user.rows) /\ final_df.rows[k]["cells"] = df_user.rows[k]

\* C2: for a row with an identifier-joined fact the decision is determined by
\* (name match, registration type): match and Permanent gives (Approve, "None"),
\* match and Temporary gives (Hold, TEMP REGISTRATION), no match gives (Hold,
\* NAME MISMATCH); (Pending, UNKNOWN ERROR) is never returned; the row is
\* Approved exactly when the name matches and the fact is Permanent.
C2_JoinedDecision ==
    \A k \in DOMAIN verdicts :
        LET row == merged_df[k]
            nm == check_name_match(RowName(row), row.doc_name)
            v == verdicts[k]
        IN Joined(row) =>
            /\ FactOf(row) \in Range(df_docs)
            /\ row.reg_type \in {REG_PERMANENT, REG_TEMPORARY}
            /\ (nm /\ row.reg_type = REG_PERMANENT) =>
                   v.status = "Approve" /\ v.error_type = "None"
            /\ (nm /\ row.reg_type = REG_TEMPORARY) =>
                   v.status = "Hold" /\ v.error_type = "TEMP REGISTRATION"
            /\ ~nm => v.status = "Hold" /\ v.error_type = "NAME MISMATCH"
            /\ v.error_type # "UNKNOWN ERROR"
            /\ results[k]["RTO status"] = "Approve" <=> (nm /\ row.reg_type = REG_PERMANENT)

\* joined rows with each of the three outcomes have been analysed
C2_Witness ==
    \A e \in {"None", "TEMP REGISTRATION", "NAME MISMATCH"} :
        \E k \in DOMAIN verdicts : Joined(merged_df[k]) /\ verdicts[k].error_type = e

\* C3: with a non-empty join pool, a row whose trimmed chassis identifier equals
\* no fact's chassis number gets (Hold, NAME MATCH / CHASSIS MISMATCH) when some
\* fact's customer name matches the row's name, and (Pending, "Please verify
\* manually", NO DOCUMENT FOUND) otherwise.
C3_UnjoinedOutcome ==
    \A k \in DOMAIN verdicts :
        LET row == merged_df[k]
            v == verdicts[k]
        IN (extracted_docs # <<>> /\ NoFactFor(row)) =>
            IF \E d \in DOMAIN extracted_docs :
                   check_name_match(RowName(row), extracted_docs[d].doc_name)
            THEN v.status = "Hold" /\ v.error_type = "NAME MATCH / CHASSIS MISMATCH"
            ELSE /\ v.status = "Pending" /\ v.remark = REMARK_MANUAL
                 /\ v.error_type = "NO DOCUMENT FOUND"

\* C4: a row with no identifier-joined fact whose name matches the customer
\* name extracted from a document without chassis number gets (Hold, NAME MATCH /
\* CHASSIS MISMATCH).
C4_ChassislessFactSearched ==
    \A k \in DOMAIN verdicts :
        LET row == merged_df[k]
            v == verdicts[k]
        IN (/\ NoFactFor(row)
            /\ \E p \in DOMAIN uploaded_pdfs :
                   /\ DocInfo(uploaded_pdfs[p]).doc_chassis = None
                   /\ check_name_match(RowName(row), DocInfo(uploaded_pdfs[p]).doc_name))
           => v.status = "Hold" /\ v.error_type = "NAME MATCH / CHASSIS MISMATCH"

\* a header equal to one of the names, case-insensitively after trimming
Resolved(columns, names) ==
    \E j \in DOMAIN columns : \E n \in DOMAIN names : Strip(Lower(columns[j])) = names[n]

InputsComplete ==
    /\ uploaded_excel.k = "sheet"
    /\ uploaded_pdfs # <<>>
    /\ Resolved(uploaded_excel.columns, chassis_variations)
    /\ Resolved(uploaded_excel.columns, name_variations)

\* C5: rows are analysed and reported only if a spreadsheet and at least one
\* document were supplied and a chassis column and a name column were resolved;
\* otherwise the run stops with an error before any row is analysed, with no
\* report, and the column error carries the headers actually present.
C5_AbortBeforeReport ==
    /\ (merged_df # <<>> \/ verdicts # <<>> \/ results # <<>> \/ final_df # Idle)
           => InputsComplete
    /\ (pc \notin {"ready", "pdfs"} /\ ~InputsComplete) =>
           /\ pc = "stopped" /\ error # Idle
           /\ merged_df = <<>> /\ verdicts = <<>> /\ results = <<>> /\ final_df = Idle
    /\ (pc = "stopped" /\ error.msg = "Column Error") =>
           /\ error.found = uploaded_excel.columns
           /\ ~(Resolved(uploaded_excel.columns, chassis_variations)
                /\ Resolved(uploaded_excel.columns, name_variations))
    /\ (pc \in {"analyze", "done", "crashed"}) => error = Idle

\* the run has stopped on a spreadsheet whose chassis header is only "Chassis"
C5_Witness ==
    /\ pc = "stopped" /\ error.msg = "Column Error"
    /\ HdrChassis \in Range(error.found)
    /\ uploaded_pdfs # <<>> /\ results = <<>>

\* present and non-blank
NonBlank(v) == v.k = "str" /\ Strip(v.s) # <<>>

\* C8: for an output row with a joined fact, the Verification Date is the
\* fact's registrationDate when present and non-blank, else its receiptDate
\* when present and non-blank, else its fallbackDate.
C8_VerificationDate ==
    \A k \in DOMAIN results :
        LET row == merged_df[k]
            date == results[k]["Verification Date"]
        IN Joined(row) =>
            \E d \in DOMAIN df_docs :
                LET f == df_docs[d]
                IN /\ f = FactOf(row)
                   /\ NonBlank(f.reg_date_specific) => date = f.reg_date_specific
                   /\ (~NonBlank(f.reg_date_specific) /\ NonBlank(f.receipt_date_specific))
                          => date = f.receipt_date_specific
                   /\ (~NonBlank(f.reg_date_specific) /\ ~NonBlank(f.receipt_date_specific))
                          => date = f.fallback_date

\* joined rows have been reported from a fact with both labelled dates, from one
\* with the receipt date only
C8_Witness ==
    /\ \E k \in DOMAIN results :
           /\ Joined(merged_df[k])
           /\ NonBlank(merged_df[k].reg_date_specific)
           /\ NonBlank(merged_df[k].receipt_date_specific)
           /\ results[k]["Verification Date"] = merged_df[k].reg_date_specific
    /\ \E k \in DOMAIN results :
           /\ Joined(merged_df[k])
           /\ merged_df[k].reg_date_specific = None
           /\ results[k]["Verification Date"] = merged_df[k].receipt_date_specific

\* the whole run as a function of its inputs: the rows of the report
RECURSIVE ExtractAll(_, _)
ExtractAll(pdfs, docs) ==
    IF pdfs = <<>> THEN docs
    ELSE ExtractAll(Tail(pdfs), AppendDoc(docs, DocInfo(Head(pdfs))))

Report(excel, pdfs) ==
    LET docs == ExtractAll(pdfs, <<>>)
        df == ReadExcel(excel)
        clean == CleanColumns(df,
                    find_column_case_insensitive(df.columns, chassis_variations).s,
                    find_column_case_insensitive(df.columns, name_variations).s)
        all == IF docs # <<>> THEN StripDocChassis(docs) ELSE docs
        merged == Merge(clean, docs)
    IN [k \in DOMAIN merged |-> OutputRow(clean.columns, merged[k], all)]

Reorderings(seq) ==
    {[j \in DOMAIN seq |-> seq[f[j]]] : f \in Permutations(DOMAIN seq)}

DistinctChassis(docs) ==
    \A a, b \in DOMAIN docs : docs[a].doc_chassis = docs[b].doc_chassis => a = b

=============================================================================
